---------------------------- MODULE Spec2Model ----------------------------
(***************************************************************************)
(* Model of the sales dashboard (src/sales_dashboard.tsx): the record      *)
(* generator, the filter, the aggregations, the forecast and the insights, *)
(* and the React component that wires them to the UI events.               *)
(*                                                                         *)
(* Strings the code takes apart (the month "YYYY-MM") are sequences of     *)
(* character codes: "0".."9" are 48..57, "-" is 45, "a" is 97.  Product    *)
(* and region names are only compared for equality and are TLA+ strings.   *)
(* A field the object does not carry (undefined) is a field the record     *)
(* does not have.                                                          *)
(***************************************************************************)
EXTENDS Integers, Sequences, FiniteSets, TLC

VARIABLES
    salesData,          \* useState(generateSalesData()): the held data set
    selectedProduct,    \* useState('All')
    selectedRegion,     \* useState('All')
    selectedTimeRange,  \* useState('All')
    showForecast,       \* useState(false)
    now,                \* what new Date() reads: [year, month (0-based)]
    seed,               \* the hidden state of Math.random
    genCalls,           \* how many times generateSalesData has been called
    filteredData,       \* useMemo: the filter stage's output
    kpis,               \* useMemo: the KPI set
    chartData,          \* useMemo: the monthly series (an array object)
    forecast,           \* useMemo: the forecast points
    insights,           \* useMemo: the insight list
    months,             \* generateForecast's second parameter (the horizon)
    before,             \* the series as generateForecast was last handed it
    arg,                \* generateInsights' optional first argument, the stage taken alone
    pc                  \* position of the session or of the stage under test

vars == <<salesData, selectedProduct, selectedRegion, selectedTimeRange,
          showForecast, now, seed, genCalls, filteredData, kpis, chartData,
          forecast, insights, months, before, arg, pc>>

-----------------------------------------------------------------------------
(* Bounds of the model. *)

\* Renders of the component in one session (the mount plus the re-renders).
MaxRenders == 3
\* Records in a record set handed to the filter stage alone.
MaxFilterRecords == 2
\* Records in a record set handed to the aggregation stage alone.
MaxAggRecords == 2
\* Entries of a monthly series handed to the forecast stage alone.
MaxSeries == 3
\* The greatest horizon asked of the forecast stage.
MaxHorizon == 4
\* Records in a record set handed to the insight stage alone.
MaxInsightRecords == 4

-----------------------------------------------------------------------------
(* Characters and strings. *)

Dash == 45
Digit(n) == 48 + n
IsDigit(c) == c >= 48 /\ c <= 57

Max(a, b) == IF a >= b THEN a ELSE b

\* String(n) for a non-negative integer.
RECURSIVE ToStr(_)
ToStr(n) == IF n < 10 THEN <<Digit(n)>> ELSE ToStr(n \div 10) \o <<Digit(n % 10)>>

\* s.padStart(2, '0')
PadStart2(s) == IF Len(s) >= 2 THEN s ELSE [i \in 1..(2 - Len(s)) |-> Digit(0)] \o s

\* `${year}-${String(month1).padStart(2, '0')}`
MonthString(year, month1) == ToStr(year) \o <<Dash>> \o PadStart2(ToStr(month1))

\* s.split('-'): the pieces between the dashes.
RECURSIVE SplitFrom(_, _, _)
SplitFrom(s, i, cur) ==
    IF i > Len(s) THEN <<cur>>
    ELSE IF s[i] = Dash THEN <<cur>> \o SplitFrom(s, i + 1, <<>>)
    ELSE SplitFrom(s, i + 1, Append(cur, s[i]))
Split(s) == SplitFrom(s, 1, <<>>)

\* A JavaScript number: an integer or NaN.
NaN == [nan |-> TRUE, v |-> 0]
Num(n) == [nan |-> FALSE, v |-> n]

RECURSIVE DigitsValue(_)
DigitsValue(s) ==
    IF s = <<>> THEN 0 ELSE 10 * DigitsValue(SubSeq(s, 1, Len(s) - 1)) + (s[Len(s)] - 48)

\* Number(s) over digits and letters: '' is 0, a run of digits is its decimal
\* value, anything else is NaN.
Number(s) == IF \A i \in 1..Len(s) : IsDigit(s[i]) THEN Num(DigitsValue(s)) ELSE NaN

\* const [year, month] = s.split('-').map(Number); a missing second piece is
\* undefined, and undefined - 1 is NaN.
ParseYear(s) == Number(Split(s)[1])
ParseMonth(s) == IF Len(Split(s)) >= 2 THEN Number(Split(s)[2]) ELSE NaN

\* x.localeCompare(y) < 0 over digits, dashes and letters.
RECURSIVE StrLess(_, _)
StrLess(x, y) ==
    IF y = <<>> THEN FALSE
    ELSE IF x = <<>> THEN TRUE
    ELSE IF x[1] # y[1] THEN x[1] < y[1]
    ELSE StrLess(Tail(x), Tail(y))

-----------------------------------------------------------------------------
(* Dates.  Every Date the code builds is the first day of a month; it is    *)
(* the count of months since year 0, or invalid.                            *)

InvalidDate == [valid |-> FALSE, t |-> 0]

\* A Date constructor that wraps the month within its year instead of
\* carrying it into the next one.
MakeDateNoCarry(year, month) ==
    [valid |-> TRUE,
     t |-> (IF year >= 0 /\ year <= 99 THEN 1900 + year ELSE year) * 12 + (month % 12)]

\* new Date(year, month, 1) with integer arguments: months outside 0..11
\* carry into the year, years 0..99 mean 1900..1999.
MakeDate(year, month) ==
    [valid |-> TRUE,
     t |-> (IF year >= 0 /\ year <= 99 THEN 1900 + year ELSE year) * 12 + month]

\* new Date(year, month - 1, 1) with the numbers a month string parsed to.
DateOfParsed(y, m) == IF y.nan \/ m.nan THEN InvalidDate ELSE MakeDate(y.v, m.v - 1)

GetFullYear(d) == d.t \div 12
GetMonth(d) == d.t % 12

\* a >= b on Dates: false when either is invalid.
DateGeq(a, b) == a.valid /\ b.valid /\ a.t >= b.t

-----------------------------------------------------------------------------
(* Arithmetic on JavaScript numbers, in fixed point. *)

\* Math.round(num / den) for num >= 0, den > 0: halves round up.
RoundDiv(num, den) == (2 * num + den) \div (2 * den)

Abs(x) == IF x < 0 THEN -x ELSE x

\* 100 * Math.sin(k * Math.PI / 6), to the nearest integer.
SinPct(k) == <<0, 50, 87, 100, 87, 50, 0, -50, -87, -100, -87, -50>>[(k % 12) + 1]

\* Math.random(), in tenths: the c-th draw of the stream the seed sd starts.
Rand(sd, c) == (sd * 7 + c * 3 + (c \div 7)) % 10

-----------------------------------------------------------------------------
(* The record generator. *)

products == <<"Laptops", "Smartphones", "Tablets", "Headphones", "Cameras", "Monitors">>
regions == <<"North America", "Europe", "Asia Pacific", "Latin America", "Middle East">>

MonthShort == <<"Jan", "Feb", "Mar", "Apr", "May", "Jun",
                "Jul", "Aug", "Sep", "Oct", "Nov", "Dec">>

\* The loop bound of generateSalesData: for (let i = 0; i < 24; i++).
NumMonths == 24

\* The body of the inner forEach: the record pushed for month index i, the
\* p-th product and the r-th region.  c counts the records pushed before it;
\* each record takes three draws of Math.random.  Revenue is computed in
\* percent fixed point, each factor applied in turn.
MakeRecord(sd, i, p, r, c) ==
    LET year == 2023 + (i \div 12)
        month == i % 12
        baseRevenue == Rand(sd, 3 * c) * 5000 + 20000
        seasonality == 100 + (30 * SinPct(i)) \div 100
        trend == 100 + i * 2
        noise == 80 + Rand(sd, 3 * c + 1) * 4
        revenue100 == ((((baseRevenue * seasonality) \div 100) * trend) \div 100) * noise
        orders == revenue100 \div (100 * (200 + Rand(sd, 3 * c + 2) * 30))
    IN  [month |-> MonthString(year, month + 1),
         product |-> products[p],
         region |-> regions[r],
         revenue |-> RoundDiv(revenue100, 100),
         orders |-> orders,
         avgOrderValue |-> RoundDiv(revenue100, 100 * orders),
         date |-> <<MonthShort[month + 1], year>>]

\* regions.forEach(region => { ... data.push(...) })
RECURSIVE ForEachRegion(_, _, _, _)
ForEachRegion(sd, i, p, r) ==
    IF r > Len(regions) THEN <<>>
    ELSE <<MakeRecord(sd, i, p, r, (i * Len(products) + (p - 1)) * Len(regions) + (r - 1))>>
         \o ForEachRegion(sd, i, p, r + 1)

\* products.forEach(product => { regions.forEach(...) })
RECURSIVE ForEachProduct(_, _, _)
ForEachProduct(sd, i, p) ==
    IF p > Len(products) THEN <<>>
    ELSE ForEachRegion(sd, i, p, 1) \o ForEachProduct(sd, i, p + 1)

\* MonthLoop with the loop run once more (i <= 24).
RECURSIVE MonthLoopInclusive(_, _)
MonthLoopInclusive(sd, i) ==
    IF i <= NumMonths THEN ForEachProduct(sd, i, 1) \o MonthLoopInclusive(sd, i + 1) ELSE <<>>

\* for (let i = 0; i < 24; i++) { ... }
RECURSIVE MonthLoop(_, _)
MonthLoop(sd, i) ==
    IF i < NumMonths THEN ForEachProduct(sd, i, 1) \o MonthLoop(sd, i + 1) ELSE <<>>

generateSalesData(sd) == MonthLoop(sd, 0)

-----------------------------------------------------------------------------
(* The filter stage. *)

HasMonth(d) == "month" \in DOMAIN d
\* !d.month: the field is undefined or the empty string.
NoMonth(d) == ~HasMonth(d) \/ d.month = <<>>

\* selectedTimeRange === 'Last 6 Months' ? 6 : 12
WindowMonths(timeRange) == IF timeRange = "Last 6 Months" THEN 6 ELSE 12

\* CutoffDate with the month held at January instead of carried into the
\* year before.
CutoffDateClamped(today, timeRange) ==
    MakeDate(today.year, Max(today.month + 1 - WindowMonths(timeRange) - 1, 0))

\* new Date(cutoffYear, cutoffMonth - 1, 1), with cutoffYear the current year
\* and cutoffMonth = currentDate.getMonth() + 1 - months.
CutoffDate(today, timeRange) ==
    LET cutoffYear == today.year
        cutoffMonth == today.month + 1 - WindowMonths(timeRange)
    IN  MakeDate(cutoffYear, cutoffMonth - 1)

\* InWindow letting a record without a month through.
InWindowKeepsNoMonth(d, today, timeRange) ==
    IF NoMonth(d) THEN TRUE
    ELSE DateGeq(DateOfParsed(ParseYear(d.month), ParseMonth(d.month)),
                 CutoffDate(today, timeRange))

\* The callback of the time-range filter.
InWindow(d, today, timeRange) ==
    IF NoMonth(d) THEN FALSE
    ELSE DateGeq(DateOfParsed(ParseYear(d.month), ParseMonth(d.month)),
                 CutoffDate(today, timeRange))

ByProduct(data, product) ==
    IF product # "All" THEN SelectSeq(data, LAMBDA d : d.product = product) ELSE data

\* ByRegion with the selection ignored.
ByRegionIgnored(data, region) == data

ByRegion(data, region) ==
    IF region # "All" THEN SelectSeq(data, LAMBDA d : d.region = region) ELSE data

ByTimeRange(data, today, timeRange) ==
    IF timeRange # "All" THEN SelectSeq(data, LAMBDA d : InWindow(d, today, timeRange))
    ELSE data

\* The filteredData memo.
FilterData(data, product, region, timeRange, today) ==
    ByTimeRange(ByRegion(ByProduct(data, product), region), today, timeRange)

-----------------------------------------------------------------------------
(* The aggregation stage. *)

\* d?.revenue || 0, d?.orders || 0: an undefined field counts as zero.
OrZero(d, f) == IF f \in DOMAIN d THEN d[f] ELSE 0

\* data.reduce((sum, d) => sum + (d?.[f] || 0), 0) over data[lo..hi]; the
\* sum is taken by halves, which adds the same terms.
RECURSIVE SumRange(_, _, _, _)
SumRange(data, f, lo, hi) ==
    IF lo > hi THEN 0
    ELSE IF lo = hi THEN OrZero(data[lo], f)
    ELSE SumRange(data, f, lo, (lo + hi) \div 2) + SumRange(data, f, (lo + hi) \div 2 + 1, hi)

SumField(data, f) == SumRange(data, f, 1, Len(data))

\* The kpis memo.  avgOrderValue is the quotient, kept as its two terms.
Kpis(data) ==
    IF Len(data) = 0
    THEN [totalRevenue |-> 0, totalOrders |-> 0, avgOrderValue |-> <<0, 1>>,
          uniqueRegions |-> 0]
    ELSE LET totalRevenue == SumField(data, "revenue")
             totalOrders == SumField(data, "orders")
         IN  [totalRevenue |-> totalRevenue,
              totalOrders |-> totalOrders,
              avgOrderValue |-> IF totalOrders > 0 THEN <<totalRevenue, totalOrders>>
                                ELSE <<0, 1>>,
              uniqueRegions |->
                  Cardinality({data[k].region : k \in {j \in 1..Len(data) :
                                  "region" \in DOMAIN data[j] /\ data[j].region # ""}})]

\* The position of the group with this month in the accumulator, or 0.
GroupIndex(acc, key) ==
    IF \E k \in 1..Len(acc) : acc[k].month = key
    THEN CHOOSE k \in 1..Len(acc) : acc[k].month = key
    ELSE 0

\* acc[key].revenue += revenue; acc[key].orders += orders, the group being
\* created first when the accumulator has none for the month.  The
\* accumulator keeps its groups in the order their months were first met.
AddToGroup(acc, key, revenue, orders) ==
    LET k == GroupIndex(acc, key)
    IN  IF k = 0 THEN Append(acc, [month |-> key, revenue |-> revenue, orders |-> orders])
        ELSE [acc EXCEPT ![k] = [month |-> key,
                                 revenue |-> acc[k].revenue + revenue,
                                 orders |-> acc[k].orders + orders]]

\* The reducer of chartData: a record without a month is passed over.
MonthlyStep(acc, item) ==
    IF NoMonth(item) THEN acc
    ELSE AddToGroup(acc, item.month, OrZero(item, "revenue"), OrZero(item, "orders"))

\* The accumulator acc after the groups of a second accumulator have been
\* added to it one by one with AddToGroup: the months acc has take the sums,
\* the months it lacks follow in the order the second one holds them.
MergeGroups(acc, groups) ==
    [k \in 1..Len(acc) |->
        LET g == GroupIndex(groups, acc[k].month)
        IN  IF g = 0 THEN acc[k]
            ELSE [month |-> acc[k].month,
                  revenue |-> acc[k].revenue + groups[g].revenue,
                  orders |-> acc[k].orders + groups[g].orders]]
    \o SelectSeq(groups, LAMBDA g : GroupIndex(acc, g.month) = 0)

\* filteredData.reduce(MonthlyStep, {}) over data[lo..hi], evaluated by
\* halves: the right half's groups are added, in order, to the left half's,
\* which leaves the groups, their order and their sums of the fold from left
\* to right.
RECURSIVE MonthlyReduce(_, _, _)
MonthlyReduce(data, lo, hi) ==
    IF lo > hi THEN <<>>
    ELSE IF lo = hi THEN MonthlyStep(<<>>, data[lo])
    ELSE MergeGroups(MonthlyReduce(data, lo, (lo + hi) \div 2),
                     MonthlyReduce(data, (lo + hi) \div 2 + 1, hi))

\* Insert x into a sequence sorted by month, after the elements not greater
\* than it (a stable sort's place for it).
RECURSIVE InsertByMonth(_, _)
InsertByMonth(sorted, x) ==
    IF sorted = <<>> THEN <<x>>
    ELSE IF StrLess(x.month, Head(sorted).month) THEN <<x>> \o sorted
    ELSE <<Head(sorted)>> \o InsertByMonth(Tail(sorted), x)

\* arr.sort((a, b) => a.month.localeCompare(b.month)): what the array holds
\* afterwards (Array.prototype.sort is stable and sorts in place).
RECURSIVE SortByMonth(_)
SortByMonth(arr) ==
    IF arr = <<>> THEN <<>>
    ELSE InsertByMonth(SortByMonth(SubSeq(arr, 1, Len(arr) - 1)), arr[Len(arr)])

\* The chartData memo.
ChartData(data) ==
    IF Len(data) = 0 THEN <<>> ELSE SortByMonth(MonthlyReduce(data, 1, Len(data)))

-----------------------------------------------------------------------------
(* The forecast stage.  The entries of the series carry a month string of  *)
(* the form YYYY-MM (chartData holds no other), or an empty one.            *)

\* What the sort of generateForecast leaves in the caller's array.
SortInPlace(historicalData) == SortByMonth(historicalData)

\* Confidence without its floor of 0.5.
ConfidenceUnfloored(i) == 7 - i

\* confidence: Math.max(0.7 - (i * 0.1), 0.5), in tenths.
Confidence(i) == Max(7 - i, 5)

\* One pass of the loop of generateForecast.
ForecastPoint(sortedData, lastDate, i) ==
    LET forecastDate == MakeDate(GetFullYear(lastDate), GetMonth(lastDate) + i)
        recentData == SubSeq(sortedData, Max(1, Len(sortedData) - 11), Len(sortedData))
        avgRevenue == SumField(recentData, "revenue") \div Len(recentData)
        trend == 100 + i * 3
        seasonality == 100 + (20 * SinPct(GetMonth(forecastDate))) \div 100
    IN  [month |-> MonthString(GetFullYear(forecastDate), GetMonth(forecastDate) + 1),
         revenue |-> RoundDiv(((avgRevenue * trend) \div 100) * seasonality, 100),
         type |-> "forecast",
         confidence |-> Confidence(i)]

\* generateForecast(historicalData, months): the points returned, and what
\* the array passed in holds when the call returns.
generateForecast(historicalData, horizon) ==
    IF Len(historicalData) = 0
    THEN [forecast |-> <<>>, historicalData |-> historicalData]
    ELSE LET sortedData == SortInPlace(historicalData)
             lastMonthStr == sortedData[Len(sortedData)].month
             lastDate == DateOfParsed(ParseYear(lastMonthStr), ParseMonth(lastMonthStr))
         IN  IF lastMonthStr = <<>>
             THEN [forecast |-> <<>>, historicalData |-> sortedData]
             ELSE [forecast |-> [i \in 1..horizon |-> ForecastPoint(sortedData, lastDate, i)],
                   historicalData |-> sortedData]

-----------------------------------------------------------------------------
(* The insight stage.  The argument is optional: <<>> when it is not given, *)
(* <<data>> when it is.  Records given to it carry product, region, month   *)
(* and revenue.                                                             *)

\* The position of the entry with this key in the accumulator, or 0.
EntryIndex(acc, key) ==
    IF \E k \in 1..Len(acc) : acc[k][1] = key
    THEN CHOOSE k \in 1..Len(acc) : acc[k][1] = key
    ELSE 0

\* acc[key] = (acc[key] || 0) + revenue: the entries <<key, total>>, in the
\* order the keys were first met.
AddToEntry(acc, key, revenue) ==
    LET k == EntryIndex(acc, key)
    IN  IF k = 0 THEN Append(acc, <<key, revenue>>)
        ELSE [acc EXCEPT ![k] = <<key, acc[k][2] + revenue>>]

\* The accumulator acc after the entries of a second accumulator have been
\* added to it one by one with AddToEntry.
MergeEntries(acc, entries) ==
    [k \in 1..Len(acc) |->
        LET e == EntryIndex(entries, acc[k][1])
        IN  IF e = 0 THEN acc[k] ELSE <<acc[k][1], acc[k][2] + entries[e][2]>>]
    \o SelectSeq(entries, LAMBDA e : EntryIndex(acc, e[1]) = 0)

\* data.reduce((acc, item) => { acc[item[f]] = (acc[item[f]] || 0) +
\* item.revenue; return acc }, {}) over data[lo..hi], evaluated by halves as
\* MonthlyReduce is.
RECURSIVE TotalsRange(_, _, _, _)
TotalsRange(data, f, lo, hi) ==
    IF lo > hi THEN <<>>
    ELSE IF lo = hi THEN AddToEntry(<<>>, data[lo][f], data[lo].revenue)
    ELSE MergeEntries(TotalsRange(data, f, lo, (lo + hi) \div 2),
                      TotalsRange(data, f, (lo + hi) \div 2 + 1, hi))

TotalsBy(data, f) == TotalsRange(data, f, 1, Len(data))

\* entries.sort(([, a], [, b]) => b - a)[0]: the first entry with the
\* greatest total (the sort is stable).
TopEntry(entries) ==
    entries[CHOOSE k \in 1..Len(entries) :
                /\ \A j \in 1..Len(entries) : entries[j][2] <= entries[k][2]
                /\ \A j \in 1..(k - 1) : entries[j][2] < entries[k][2]]

\* Insert a key into a sorted sequence of keys.
RECURSIVE InsertKey(_, _)
InsertKey(sorted, x) ==
    IF sorted = <<>> THEN <<x>>
    ELSE IF StrLess(x, Head(sorted)) THEN <<x>> \o sorted
    ELSE <<Head(sorted)>> \o InsertKey(Tail(sorted), x)

\* Object.keys(monthlyTotals).sort()
RECURSIVE SortedKeys(_)
SortedKeys(entries) ==
    IF entries = <<>> THEN <<>>
    ELSE InsertKey(SortedKeys(SubSeq(entries, 1, Len(entries) - 1)), entries[Len(entries)][1])

\* floor(n * 10^k / d) and the remainder, by long division.
RECURSIVE ScaledDiv(_, _, _)
ScaledDiv(n, d, k) ==
    IF k = 0 THEN <<n \div d, n % d>>
    ELSE LET p == ScaledDiv(n, d, k - 1)
         IN  <<p[1] * 10 + (p[2] * 10) \div d, (p[2] * 10) % d>>

\* Math.abs(avgGrowth).toFixed(1), in tenths of a percent.
GrowthTenths(first, last) ==
    LET p == ScaledDiv(Abs(last - first), first, 3)
    IN  p[1] + (IF 2 * p[2] >= first THEN 1 ELSE 0)

\* (total / 1000).toFixed(0)
Thousands(total) == RoundDiv(total, 1000)

\* GrowthInsight taking the three oldest months (slice(0, 3)) instead of the
\* three most recent.
GrowthInsightOldest(data) ==
    LET monthlyTotals == TotalsBy(data, "month")
        keys == SortedKeys(monthlyTotals)
        recent == [j \in 1..3 |-> monthlyTotals[EntryIndex(monthlyTotals, keys[j])][2]]
    IN  IF Len(keys) >= 3 /\ recent[1] > 0
        THEN <<[kind |-> "growth",
                label |-> IF recent[3] - recent[1] > 0 THEN "Positive" ELSE "Negative",
                tenths |-> GrowthTenths(recent[1], recent[3])]>>
        ELSE <<>>

\* The growth-trend block of generateInsights.
GrowthInsight(data) ==
    LET monthlyTotals == TotalsBy(data, "month")
        keys == SortedKeys(monthlyTotals)
        recent == [j \in 1..3 |->
                      monthlyTotals[EntryIndex(monthlyTotals, keys[Len(keys) - 3 + j])][2]]
    IN  IF Len(keys) >= 3 /\ recent[1] > 0
        THEN <<[kind |-> "growth",
                label |-> IF recent[3] - recent[1] > 0 THEN "Positive" ELSE "Negative",
                tenths |-> GrowthTenths(recent[1], recent[3])]>>
        ELSE <<>>

Fallback == [kind |-> "nodata"]

\* The top-product block and the top-region block of generateInsights.
TopInsight(data, f, kind) ==
    LET entries == TotalsBy(data, f)
    IN  IF Len(entries) > 0
        THEN <<[kind |-> kind, name |-> TopEntry(entries)[1],
                k |-> Thousands(TopEntry(entries)[2])]>>
        ELSE <<>>

\* generateInsights with the region block ahead of the product block.
generateInsightsRegionFirst(data) ==
    IF data = <<>> \/ Len(data[1]) = 0 THEN <<Fallback>>
    ELSE TopInsight(data[1], "region", "region")
         \o TopInsight(data[1], "product", "product")
         \o GrowthInsight(data[1])

\* generateInsights(data, filters)
generateInsights(data) ==
    IF data = <<>> \/ Len(data[1]) = 0 THEN <<Fallback>>
    ELSE TopInsight(data[1], "product", "product")
         \o TopInsight(data[1], "region", "region")
         \o GrowthInsight(data[1])

-----------------------------------------------------------------------------
(* The component: one session of the dashboard. *)

\* The options of the three selects.
productOptions == {"All"} \cup {products[k] : k \in 1..Len(products)}
regionOptions == {"All"} \cup {regions[k] : k \in 1..Len(regions)}
timeRanges == {"All", "Last 6 Months", "Last 12 Months"}

\* The months new Date() reads in the sessions modelled (a session does not
\* outlast its calendar month).
SessionDates == {[year |-> 2024, month |-> 2], [year |-> 2025, month |-> 4]}

\* The seeds Math.random starts from in the sessions modelled.
Seeds == {0, 3}

\* generateForecast(chartData): months defaults to 3.
DefaultHorizon == 3

\* One run of the component function: useState(generateSalesData()) evaluates
\* its argument, so the generator runs; React keeps the first render's data.
RenderCalls(n) == n + 1

\* The memos that depend on the filter selection, recomputed for a selection.
\* (productData and regionData, two more sums over filteredData that only the
\* bar and pie charts and the export read, are left out.)
Recompute(product, region, timeRange) ==
    LET filtered == FilterData(salesData, product, region, timeRange, now)
        chart == ChartData(filtered)
        result == generateForecast(chart, DefaultHorizon)
    IN  /\ filteredData' = filtered
        /\ kpis' = Kpis(filtered)
        /\ chartData' = IF showForecast THEN result.historicalData ELSE chart
        /\ forecast' = IF showForecast THEN result.forecast ELSE <<>>
        /\ before' = IF showForecast THEN chart ELSE before
        /\ insights' = generateInsights(<<filtered>>)

SessionInit ==
    /\ seed \in Seeds
    /\ now \in SessionDates
    /\ salesData = generateSalesData(seed)
    /\ genCalls = RenderCalls(0)
    /\ selectedProduct = "All"
    /\ selectedRegion = "All"
    /\ selectedTimeRange = "All"
    /\ showForecast = FALSE
    /\ filteredData = FilterData(salesData, "All", "All", "All", now)
    /\ kpis = Kpis(filteredData)
    /\ chartData = ChartData(filteredData)
    /\ forecast = <<>>
    /\ insights = generateInsights(<<filteredData>>)
    /\ arg = <<>>
    /\ months = DefaultHorizon
    /\ before = <<>>
    /\ pc = "session"

\* onChange of the product select: setSelectedProduct(e.target.value).
SelectProduct ==
    \E p \in productOptions :
        /\ pc = "session" /\ genCalls < MaxRenders
        /\ p # selectedProduct
        /\ selectedProduct' = p
        /\ genCalls' = RenderCalls(genCalls)
        /\ Recompute(p, selectedRegion, selectedTimeRange)
        /\ UNCHANGED <<salesData, selectedRegion, selectedTimeRange, showForecast,
                       now, seed, months, arg, pc>>

\* onChange of the region select: setSelectedRegion(e.target.value).
SelectRegion ==
    \E r \in regionOptions :
        /\ pc = "session" /\ genCalls < MaxRenders
        /\ r # selectedRegion
        /\ selectedRegion' = r
        /\ genCalls' = RenderCalls(genCalls)
        /\ Recompute(selectedProduct, r, selectedTimeRange)
        /\ UNCHANGED <<salesData, selectedProduct, selectedTimeRange, showForecast,
                       now, seed, months, arg, pc>>

\* onChange of the time-range select: setSelectedTimeRange(e.target.value).
SelectTimeRange ==
    \E t \in timeRanges :
        /\ pc = "session" /\ genCalls < MaxRenders
        /\ t # selectedTimeRange
        /\ selectedTimeRange' = t
        /\ genCalls' = RenderCalls(genCalls)
        /\ Recompute(selectedProduct, selectedRegion, t)
        /\ UNCHANGED <<salesData, selectedProduct, selectedRegion, showForecast,
                       now, seed, months, arg, pc>>

\* onClick of the forecast button: setShowForecast(!showForecast).  Only the
\* forecast memo is recomputed; generateForecast is handed the chartData array.
ToggleForecast ==
    LET result == generateForecast(chartData, DefaultHorizon) IN
    /\ pc = "session" /\ genCalls < MaxRenders
    /\ showForecast' = ~showForecast
    /\ genCalls' = RenderCalls(genCalls)
    /\ forecast' = IF showForecast' THEN result.forecast ELSE <<>>
    /\ chartData' = IF showForecast' THEN result.historicalData ELSE chartData
    /\ before' = IF showForecast' THEN chartData ELSE before
    /\ UNCHANGED <<salesData, selectedProduct, selectedRegion, selectedTimeRange,
                   now, seed, filteredData, kpis, insights, arg, months, pc>>

\* onClick of the export button: exportReport reads the memos and sets no state.
Export ==
    /\ pc = "session"
    /\ UNCHANGED vars

Next == SelectProduct \/ SelectRegion \/ SelectTimeRange \/ ToggleForecast \/ Export

Spec == SessionInit /\ [][Next]_vars

\* Properties of the session. ------------------------------------------------

\* The record satisfies the three predicates of the current selection at once.
Matches(d) ==
    /\ selectedProduct = "All" \/ d.product = selectedProduct
    /\ selectedRegion = "All" \/ d.region = selectedRegion
    /\ selectedTimeRange = "All" \/ InWindow(d, now, selectedTimeRange)

\* The records of data[lo..hi] that match, in the order data holds them.
RECURSIVE Matching(_, _, _)
Matching(data, lo, hi) ==
    IF lo > hi THEN <<>>
    ELSE IF lo = hi THEN (IF Matches(data[lo]) THEN <<data[lo]>> ELSE <<>>)
    ELSE Matching(data, lo, (lo + hi) \div 2) \o Matching(data, (lo + hi) \div 2 + 1, hi)

Grid ==
    {<<MonthString(y, m), p, r>> :
        y \in {2023, 2024}, m \in 1..12,
        p \in {"Laptops", "Smartphones", "Tablets", "Headphones", "Cameras", "Monitors"},
        r \in {"North America", "Europe", "Asia Pacific", "Latin America", "Middle East"}}

\* C8: the generator yields 720 records, one for each combination of the 24
\* months 2023-01 .. 2024-12, the 6 products and the 5 regions, and none for
\* another month.  (720 records that cover the 720 combinations, and nothing
\* else, hold each combination once.)
C8_GeneratorCoversGrid ==
    pc = "session" =>
        /\ Len(salesData) = 720
        /\ Cardinality(Grid) = 720
        /\ {<<salesData[k].month, salesData[k].product, salesData[k].region>> :
                k \in 1..Len(salesData)} = Grid

\* The generator has run: the data set starts at 2023-01 and ends at 2024-12.
C8_Witness ==
    /\ pc = "session"
    /\ genCalls >= 1
    /\ Len(salesData) = 720
    /\ salesData[1].month = <<50, 48, 50, 51, 45, 48, 49>>
    /\ salesData[720].month = <<50, 48, 50, 52, 45, 49, 50>>
    /\ salesData[720].product = "Monitors" /\ salesData[720].region = "Middle East"

\* C9 as stated: whatever the UI events, generateSalesData has been called
\* exactly once.
C9_GeneratorCalledOnce == pc = "session" => genCalls = 1

-----------------------------------------------------------------------------
(* The stages taken alone: each is handed an input drawn from a small set,  *)
(* and runs once.                                                           *)

\* Sequences of at most n elements of S.
SeqsUpTo(S, n) == UNION {[1..k -> S] : k \in 0..n}

\* The filter stage alone. ------------------------------------------------

\* '2024', '20a4-01', '2024-13': month strings that are not YYYY-MM.
BadMonths == {<<50, 48, 50, 52>>, <<50, 48, 97, 52, 45, 48, 49>>,
              <<50, 48, 50, 52, 45, 49, 51>>}

FilterMonths == {<<>>, MonthString(2023, 8), MonthString(2023, 9)} \cup BadMonths

FilterRecords ==
    LET rest == {[product |-> "Laptops", region |-> "Europe", revenue |-> 100, orders |-> 1],
                 [product |-> "Tablets", region |-> "Asia Pacific", revenue |-> 200, orders |-> 2]}
    IN  rest \cup {[month |-> m, product |-> r.product, region |-> r.region,
                    revenue |-> r.revenue, orders |-> r.orders] :
                   m \in FilterMonths, r \in rest}

FilterDates == {[year |-> 2024, month |-> 0], [year |-> 2024, month |-> 2],
                [year |-> 2024, month |-> 8], [year |-> 2025, month |-> 1]}

FilterInit ==
    /\ salesData \in SeqsUpTo(FilterRecords, MaxFilterRecords)
    /\ selectedProduct \in {"All", "Laptops"}
    /\ selectedRegion \in {"All", "Europe"}
    /\ selectedTimeRange \in timeRanges
    /\ now \in FilterDates
    /\ filteredData = <<>>
    /\ kpis = <<>> /\ chartData = <<>> /\ forecast = <<>> /\ insights = <<>>
    /\ before = <<>> /\ arg = <<>>
    /\ showForecast = FALSE /\ seed = 0 /\ genCalls = 0 /\ months = DefaultHorizon
    /\ pc = "input"

\* The filteredData memo is computed.
RunFilter ==
    /\ pc = "input"
    /\ filteredData' = FilterData(salesData, selectedProduct, selectedRegion,
                                  selectedTimeRange, now)
    /\ pc' = "filtered"
    /\ UNCHANGED <<salesData, selectedProduct, selectedRegion, selectedTimeRange,
                   showForecast, now, seed, genCalls, kpis, chartData, forecast,
                   insights, months, before, arg>>

SpecFilter == FilterInit /\ [][RunFilter]_vars

\* Properties of the filter stage. ------------------------------------------

\* The month string has the form YYYY-MM with MM in 01..12.
WellFormedMonth(m) ==
    /\ Len(m) = 7
    /\ \A k \in {1, 2, 3, 4, 6, 7} : IsDigit(m[k])
    /\ m[5] = Dash
    /\ 10 * (m[6] - 48) + (m[7] - 48) \in 1..12

YearOf(m) == 1000 * (m[1] - 48) + 100 * (m[2] - 48) + 10 * (m[3] - 48) + (m[4] - 48)
MonthOf(m) == 10 * (m[6] - 48) + (m[7] - 48)

\* The record's month is absent or not of the form YYYY-MM.
Malformed(d) == ~HasMonth(d) \/ ~WellFormedMonth(d.month)

\* The record's month is absent or empty, or has no dash, or has a character
\* that is not a digit before its first dash or between its first dash and
\* the next (or the end).
Unparsed(d) ==
    \/ ~HasMonth(d)
    \/ d.month = <<>>
    \/ LET m == d.month
           dashes == {k \in 1..Len(m) : m[k] = Dash}
           first == CHOOSE k \in dashes : \A j \in dashes : k <= j
           later == {k \in dashes : k > first}
           stop == IF later = {} THEN Len(m) + 1
                   ELSE CHOOSE k \in later : \A j \in later : k <= j
       IN  \/ dashes = {}
           \/ \E k \in 1..(first - 1) : ~IsDigit(m[k])
           \/ \E k \in (first + 1)..(stop - 1) : ~IsDigit(m[k])

\* The record passes the product and region selections.
Selected(d) ==
    /\ selectedProduct = "All" \/ d.product = selectedProduct
    /\ selectedRegion = "All" \/ d.region = selectedRegion

Retained(d) == \E j \in 1..Len(filteredData) : filteredData[j] = d

RECURSIVE MonthsBack(_, _, _)
MonthsBack(y, m1, n) ==
    IF n = 0 THEN <<y, m1>>
    ELSE IF m1 = 1 THEN MonthsBack(y - 1, 12, n - 1)
    ELSE MonthsBack(y, m1 - 1, n - 1)

\* C4: under "Last 6 Months" (N = 6) or "Last 12 Months" (N = 12) a
\* well-formed record that passes the other selections is retained exactly
\* when its month is on or after the calendar month N months before the
\* current one, years rolled back as needed.
C4_WindowIsLastNMonths ==
    (pc = "filtered" /\ selectedTimeRange # "All") =>
        LET n == IF selectedTimeRange = "Last 6 Months" THEN 6 ELSE 12
            cutoff == MonthsBack(now.year, now.month + 1, n)
        IN  \A k \in 1..Len(salesData) :
                LET d == salesData[k] IN
                (~Malformed(d) /\ Selected(d)) =>
                    (Retained(d) <=>
                        \/ YearOf(d.month) > cutoff[1]
                        \/ YearOf(d.month) = cutoff[1] /\ MonthOf(d.month) >= cutoff[2])

\* In March 2024 with "Last 6 Months" the record of 2023-09 is kept and the
\* record of 2023-08 is dropped: the cutoff lies in the year before.
C4_Witness ==
    /\ pc = "filtered"
    /\ now = [year |-> 2024, month |-> 2]
    /\ selectedTimeRange = "Last 6 Months"
    /\ \E k \in 1..Len(salesData) :
           /\ HasMonth(salesData[k]) /\ salesData[k].month = MonthString(2023, 9)
           /\ Retained(salesData[k])
    /\ \E k \in 1..Len(salesData) :
           /\ HasMonth(salesData[k]) /\ salesData[k].month = MonthString(2023, 8)
           /\ Selected(salesData[k]) /\ ~Retained(salesData[k])

\* The aggregation stage alone. ----------------------------------------------

\* Records with and without a month, a revenue, an orders count, a region.
AggRecords ==
    {[month |-> m, region |-> "Europe", revenue |-> r, orders |-> 2] :
        m \in {<<>>, MonthString(2024, 1), MonthString(2024, 2)}, r \in {0, 100, 250}}
    \cup {[region |-> "Europe", revenue |-> 100, orders |-> 2],
          [month |-> MonthString(2024, 1), region |-> "Asia Pacific", orders |-> 2],
          [month |-> MonthString(2024, 2), region |-> "", revenue |-> 250],
          [month |-> MonthString(2024, 1), revenue |-> 100, orders |-> 3]}

AggInit ==
    /\ filteredData \in SeqsUpTo(AggRecords, MaxAggRecords)
    /\ salesData = <<>>
    /\ selectedProduct = "All" /\ selectedRegion = "All" /\ selectedTimeRange = "All"
    /\ now = [year |-> 2024, month |-> 0]
    /\ kpis = <<>> /\ chartData = <<>> /\ forecast = <<>> /\ insights = <<>>
    /\ before = <<>> /\ arg = <<>>
    /\ showForecast = FALSE /\ seed = 0 /\ genCalls = 0 /\ months = DefaultHorizon
    /\ pc = "input"

\* The kpis memo and the chartData memo are computed.
RunAggregation ==
    /\ pc = "input"
    /\ kpis' = Kpis(filteredData)
    /\ chartData' = ChartData(filteredData)
    /\ pc' = "aggregated"
    /\ UNCHANGED <<salesData, selectedProduct, selectedRegion, selectedTimeRange,
                   showForecast, now, seed, genCalls, filteredData, forecast,
                   insights, months, before, arg>>

SpecAgg == AggInit /\ [][RunAggregation]_vars

\* C3 as stated: for any record set, records without a month, a revenue or
\* an orders count included, the revenues of the monthly series add up to
\* the KPI totalRevenue.
C3_SeriesSumEqualsTotal ==
    pc = "aggregated" => SumField(chartData, "revenue") = kpis.totalRevenue

\* The forecast stage alone. -------------------------------------------------

\* Entries of a monthly series: a month YYYY-MM with its sums.  A series is
\* any sequence of them, sorted or not.
SeriesEntries ==
    {[month |-> m, revenue |-> r, orders |-> 1] :
        m \in {MonthString(2023, 5), MonthString(2024, 11), MonthString(2024, 12)},
        r \in {1000, 3000}}

ForecastInit ==
    /\ chartData \in SeqsUpTo(SeriesEntries, MaxSeries)
    /\ months \in 0..MaxHorizon
    /\ salesData = <<>> /\ filteredData = <<>>
    /\ selectedProduct = "All" /\ selectedRegion = "All" /\ selectedTimeRange = "All"
    /\ now = [year |-> 2024, month |-> 0]
    /\ kpis = <<>> /\ forecast = <<>> /\ insights = <<>>
    /\ before = <<>> /\ arg = <<>>
    /\ showForecast = TRUE /\ seed = 0 /\ genCalls = 0
    /\ pc = "input"

\* generateForecast(chartData, months) is called and returns.
RunForecast ==
    LET result == generateForecast(chartData, months) IN
    /\ pc = "input"
    /\ before' = chartData
    /\ forecast' = result.forecast
    /\ chartData' = result.historicalData
    /\ pc' = "forecast"
    /\ UNCHANGED <<salesData, selectedProduct, selectedRegion, selectedTimeRange,
                   showForecast, now, seed, genCalls, filteredData, kpis,
                   insights, months, arg>>

SpecForecast == ForecastInit /\ [][RunForecast]_vars

\* The confidences of the points never rise, lie between 0.5 and 0.7, and are
\* 0.6 for the first point and 0.5 from the second on (tenths).
ConfidenceDecays(points) ==
    /\ \A i \in 1..Len(points) : points[i].confidence \in 5..7
    /\ \A i \in 1..(Len(points) - 1) : points[i + 1].confidence <= points[i].confidence
    /\ \A i \in 1..Len(points) : points[i].confidence = (IF i = 1 THEN 6 ELSE 5)

\* C5: no points for an empty series; for every non-empty series and
\* horizon h >= 1, exactly h points, whose confidence never rises, stays in
\* [0.5, 0.7] and is max(0.7 - 0.1 i, 0.5) for point i.
C5_HorizonPointsForNonEmpty ==
    pc = "forecast" =>
        /\ Len(before) = 0 => forecast = <<>>
        /\ (Len(before) > 0 /\ months >= 1) =>
               Len(forecast) = months /\ ConfidenceDecays(forecast)

\* A non-empty series was forecast three or more months ahead.
C5_Witness ==
    /\ pc = "forecast"
    /\ Len(before) > 0 /\ months >= 3
    /\ Len(forecast) = months
    /\ forecast[1].confidence = 6 /\ forecast[3].confidence = 5

\* An empty series was forecast.
C5_WitnessEmpty == pc = "forecast" /\ Len(before) = 0 /\ months >= 1 /\ forecast = <<>>

\* C10 as stated: whatever series generateForecast is handed, sorted or not,
\* the series holds the same elements in the same order when the call returns.
C10_SeriesUntouched == pc = "forecast" => chartData = before

\* The calendar month n months after month m1 (1..12) of year y.
RECURSIVE MonthsAhead(_, _, _)
MonthsAhead(y, m1, n) ==
    IF n = 0 THEN <<y, m1>>
    ELSE IF m1 = 12 THEN MonthsAhead(y + 1, 1, n - 1)
    ELSE MonthsAhead(y, m1 + 1, n - 1)

\* The calendar month a month string YYYY-MM names.
CalendarMonth(m) == <<YearOf(m), MonthOf(m)>>

\* Calendar month a is strictly earlier than calendar month b.
Earlier(a, b) == a[1] < b[1] \/ (a[1] = b[1] /\ a[2] < b[2])

\* The latest calendar month among the entries of a non-empty series.
LatestMonth(series) ==
    CHOOSE c \in {CalendarMonth(series[k].month) : k \in 1..Len(series)} :
        \A k \in 1..Len(series) : ~Earlier(c, CalendarMonth(series[k].month))

\* No two entries of the sequence carry the same month.
DistinctMonths(series) ==
    \A j, k \in 1..Len(series) : series[j].month = series[k].month => j = k

\* C11: for every non-empty monthly series and every offset i in 1..horizon,
\* forecast point i carries, written YYYY-MM, the month exactly i calendar
\* months after the latest historical month, rolling over year boundaries;
\* the forecast months are strictly ascending and strictly later than every
\* historical month, and the series followed by the forecast, as the line
\* chart receives them, has no duplicate month when the series has one entry
\* per month.
C11_ForecastMonthsFollowLatest ==
    (pc = "forecast" /\ Len(before) > 0) =>
        /\ Len(forecast) = months
        /\ \A i \in 1..Len(forecast) :
               /\ WellFormedMonth(forecast[i].month)
               /\ CalendarMonth(forecast[i].month)
                      = MonthsAhead(LatestMonth(before)[1], LatestMonth(before)[2], i)
        /\ \A i \in 1..(Len(forecast) - 1) :
               Earlier(CalendarMonth(forecast[i].month), CalendarMonth(forecast[i + 1].month))
        /\ \A i \in 1..Len(forecast) : \A k \in 1..Len(before) :
               Earlier(CalendarMonth(before[k].month), CalendarMonth(forecast[i].month))
        /\ DistinctMonths(before) => DistinctMonths(chartData \o forecast)

\* A series whose latest month is 2024-11, handed over unsorted, was forecast
\* three or more months ahead: 2024-12, 2025-01, 2025-02.
C11_Witness ==
    /\ pc = "forecast"
    /\ Len(before) >= 2 /\ DistinctMonths(before)
    /\ before[1].month = MonthString(2024, 11)
    /\ LatestMonth(before) = <<2024, 11>>
    /\ months >= 3
    /\ forecast[1].month = <<50, 48, 50, 52, 45, 49, 50>>
    /\ forecast[2].month = <<50, 48, 50, 53, 45, 48, 49>>
    /\ forecast[3].month = <<50, 48, 50, 53, 45, 48, 50>>

\* A series whose latest month is 2024-12 was forecast: the first point is
\* 2025-01.
C11_WitnessDecember ==
    /\ pc = "forecast"
    /\ Len(before) > 0 /\ LatestMonth(before) = <<2024, 12>>
    /\ months >= 1
    /\ forecast[1].month = <<50, 48, 50, 53, 45, 48, 49>>

\* The insight stage alone. --------------------------------------------------

\* Records of four months; revenue is never negative.
InsightRecords ==
    {[month |-> MonthString(2024, m), product |-> r[1], region |-> r[2], revenue |-> r[3]] :
        m \in 1..4,
        r \in {<<"Laptops", "Europe", 100000>>, <<"Tablets", "Asia Pacific", 90000>>}}
    \cup {[month |-> MonthString(2024, m), product |-> "Laptops", region |-> "Europe",
           revenue |-> 0] : m \in 1..2}
    \cup {[month |-> MonthString(2024, 3), product |-> "Tablets", region |-> "Europe",
           revenue |-> 120000]}

InsightsInit ==
    /\ arg \in {<<>>} \cup {<<data>> : data \in SeqsUpTo(InsightRecords, MaxInsightRecords)}
    /\ salesData = <<>> /\ filteredData = <<>>
    /\ selectedProduct = "All" /\ selectedRegion = "All" /\ selectedTimeRange = "All"
    /\ now = [year |-> 2024, month |-> 0]
    /\ kpis = <<>> /\ chartData = <<>> /\ forecast = <<>> /\ insights = <<>>
    /\ before = <<>>
    /\ showForecast = FALSE /\ seed = 0 /\ genCalls = 0 /\ months = DefaultHorizon
    /\ pc = "input"

\* generateInsights(data, filters) is called and returns.
RunInsights ==
    /\ pc = "input"
    /\ insights' = generateInsights(arg)
    /\ pc' = "insights"
    /\ UNCHANGED <<salesData, selectedProduct, selectedRegion, selectedTimeRange,
                   showForecast, now, seed, genCalls, filteredData, kpis, chartData,
                   forecast, months, before, arg>>

SpecInsights == InsightsInit /\ [][RunInsights]_vars

\* The argument was given and holds at least one record.
NonEmptyArg == arg # <<>> /\ arg[1] # <<>>

\* Where an insight of this kind stands in the required order.
Rank(kind) == CASE kind = "product" -> 1 [] kind = "region" -> 2 [] kind = "growth" -> 3
                [] OTHER -> 0

\* C6: for an empty or absent record set the result is the fallback message
\* alone; for a non-empty one it is at most three entries, none the fallback,
\* in the order top product, top region, growth trend.
C6_FallbackOrOrderedInsights ==
    pc = "insights" =>
        /\ ~NonEmptyArg => insights = <<[kind |-> "nodata"]>>
        /\ NonEmptyArg =>
               /\ Len(insights) \in 0..3
               /\ \A i \in 1..Len(insights) : Rank(insights[i].kind) \in 1..3
               /\ \A i \in 1..Len(insights) : \A j \in (i + 1)..Len(insights) :
                      Rank(insights[i].kind) < Rank(insights[j].kind)

\* All three insights were produced, in order.
C6_Witness ==
    /\ pc = "insights" /\ NonEmptyArg
    /\ Len(insights) = 3
    /\ insights[1].kind = "product" /\ insights[2].kind = "region"
    /\ insights[3].kind = "growth"

\* The months of the records, and the revenue of a month.
MonthsOf(data) == {data[k].month : k \in 1..Len(data)}
RevenueOf(data, m) == SumField(SelectSeq(data, LAMBDA d : d.month = m), "revenue")

\* The latest month of a non-empty set of month strings.
Latest(ms) == CHOOSE m \in ms : \A o \in ms : o = m \/ StrLess(o, m)

\* The revenue totals of the three most recent months, oldest first.
LastThree(data) ==
    LET m3 == Latest(MonthsOf(data))
        m2 == Latest(MonthsOf(data) \ {m3})
        m1 == Latest(MonthsOf(data) \ {m3, m2})
    IN  <<RevenueOf(data, m1), RevenueOf(data, m2), RevenueOf(data, m3)>>

GrowthInsights == SelectSeq(insights, LAMBDA x : x.kind = "growth")

\* C7: the growth insight is there exactly when the records span three or
\* more months and the earliest of the three most recent totals is not zero;
\* it reports |latest - earliest| / earliest * 100 to one decimal, "Positive"
\* for growth and "Negative" for decline; totals 100000, 120000, 90000 give
\* "Negative" and 10.0.
C7_GrowthInsight ==
    (pc = "insights" /\ NonEmptyArg) =>
        LET data == arg[1]
            spans == Cardinality(MonthsOf(data)) >= 3
            t == LastThree(data)
            g == GrowthInsights[1]
        IN  /\ Len(GrowthInsights) = (IF spans /\ t[1] # 0 THEN 1 ELSE 0)
            /\ Len(GrowthInsights) = 1 =>
                   /\ t[3] > t[1] => g.label = "Positive"
                   /\ t[3] < t[1] => g.label = "Negative"
                   /\ 2 * t[1] * g.tenths <= 2000 * Abs(t[3] - t[1]) + t[1]
                   /\ 2000 * Abs(t[3] - t[1]) + t[1] < 2 * t[1] * (g.tenths + 1)
                   /\ t = <<100000, 120000, 90000>> => g.label = "Negative" /\ g.tenths = 100

\* Four months of records whose last three total 100000, 120000 and 90000.
C7_Witness ==
    /\ pc = "insights" /\ NonEmptyArg
    /\ Cardinality(MonthsOf(arg[1])) = 4
    /\ LastThree(arg[1]) = <<100000, 120000, 90000>>
    /\ Len(GrowthInsights) = 1
    /\ GrowthInsights[1].label = "Negative" /\ GrowthInsights[1].tenths = 100

\* Three months of records, the earliest with no revenue: no growth insight.
C7_WitnessZero ==
    /\ pc = "insights" /\ NonEmptyArg
    /\ Cardinality(MonthsOf(arg[1])) >= 3
    /\ LastThree(arg[1])[1] = 0
    /\ Len(GrowthInsights) = 0

=============================================================================
